---- MODULE Spec2Model ----
(***************************************************************************)
(* Smart Trader Cockpit: the retry wrapper around the AI call (withRetry,  *)
(* getBackoffDelay, isRetryableError) and the localStorage trading journal *)
(* (saveJournalEntry, updateJournalOutcome, updateJournalPair,             *)
(* deleteJournalEntry, clearJournal, getJournalStats), modelled from       *)
(* src/src/lib/journalStorage.ts; the page that sends the analysis         *)
(* requests (Home in src/src/app/page.tsx with the slots of UploadZone)    *)
(* and the blur handlers of TradeOutcomeSelector.                          *)
(***************************************************************************)
EXTENDS Integers, Sequences, FiniteSets, TLC

VARIABLES
    \* ---- withRetry ----
    pc,         \* position of the withRetry call: "loop", "op", "returned", "thrown"
    attempt,    \* the for-loop variable of withRetry
    lastError,  \* the local lastError of withRetry
    calls,      \* the errors/values produced by the invocations of operation(), in order
    sleeps,     \* the delays passed to sleep(), in order
    settled,    \* what withRetry returned or threw, or Undefined while it runs
    \* ---- pure functions applied to one input ----
    arg,        \* the thrown value handed to isRetryableError
    ret,        \* [done, value]: whether it was called, and its result
    \* ---- journal ----
    storage,    \* localStorage[STORAGE_KEY]
    now,        \* Date.now()
    nextId,     \* the next value of crypto.randomUUID()
    pending,    \* the saveJournalEntry call suspended on createThumbnail, or NoCall
    last,       \* the last completed journal operation, with its arguments and result
    ops,        \* number of journal operations started
    \* ---- the page ----
    page        \* the state of Home and of its handleAnalyze call, with what was observed

retryVars == <<pc, attempt, lastError, calls, sleeps, settled>>
pureVars == <<arg, ret>>
journalVars == <<storage, now, nextId, pending, last, ops>>
pageVars == <<page>>
vars == <<pc, attempt, lastError, calls, sleeps, settled, arg, ret,
          storage, now, nextId, pending, last, ops, page>>

(***************************************************************************)
(* Strings are sequences of one-character strings, so that toLowerCase and *)
(* includes are computed and not assumed.                                  *)
(***************************************************************************)
Upper == <<"A","B","C","D","E","F","G","H","I","J","K","L","M",
           "N","O","P","Q","R","S","T","U","V","W","X","Y","Z">>
Lower == <<"a","b","c","d","e","f","g","h","i","j","k","l","m",
           "n","o","p","q","r","s","t","u","v","w","x","y","z">>

LowerChar(c) ==
    IF \E i \in 1..Len(Upper) : Upper[i] = c
    THEN Lower[CHOOSE i \in 1..Len(Upper) : Upper[i] = c]
    ELSE c

toLowerCase(s) == [i \in 1..Len(s) |-> LowerChar(s[i])]

includes(s, sub) ==
    \E i \in 0..(Len(s) - Len(sub)) :
        \A j \in 1..Len(sub) : s[i + j] = sub[j]

\* the value of a missing property
Undefined == <<"undefined">>
NoStatus == -1

(***************************************************************************)
(* RETRY_CONFIG                                                            *)
(***************************************************************************)
\* one retry more than configured
MAX_RETRIES_plusOne == 3 + 1

MAX_RETRIES == 3
INITIAL_DELAY_MS == 2000
MAX_DELAY_MS == 8000
BACKOFF_MULTIPLIER == 2

RECURSIVE pow(_, _)
pow(b, n) == IF n = 0 THEN 1 ELSE b * pow(b, n - 1)

min(a, b) == IF a < b THEN a ELSE b

\* the delay without the clamp to MAX_DELAY_MS
getBackoffDelay_unclamped(k) == INITIAL_DELAY_MS * pow(BACKOFF_MULTIPLIER, k)

getBackoffDelay(k) ==
    LET delay == INITIAL_DELAY_MS * pow(BACKOFF_MULTIPLIER, k)
    IN  min(delay, MAX_DELAY_MS)

QUOTA == <<"q","u","o","t","a">>
RATE_LIMIT == <<"r","a","t","e"," ","l","i","m","i","t">>
TOO_MANY_REQUESTS == <<"t","o","o"," ","m","a","n","y"," ","r","e","q","u","e","s","t","s">>

\* the keyword test without toLowerCase
isRetryableError_caseSensitive(error) ==
    IF error.type # "object" THEN FALSE
    ELSE IF error.status = 429 \/ error.status = 503 THEN TRUE
    ELSE LET message == IF error.message = Undefined THEN <<>> ELSE error.message
         IN  \/ includes(message, QUOTA)
             \/ includes(message, RATE_LIMIT)
             \/ includes(message, TOO_MANY_REQUESTS)

\* the final return false replaced by return true
isRetryableError_anyObject(error) == error.type = "object"

\* error is a JavaScript value [type, status, message, text, n]: typeof error, its
\* status and message properties, the content of a string, and the invocation
\* of operation() that created it (the identity of the object)
isRetryableError(error) ==
    IF error.type # "object" THEN FALSE
    ELSE IF error.status = 429 \/ error.status = 503 THEN TRUE
    ELSE LET message == IF error.message = Undefined \/ error.message = <<>>
                        THEN <<>>
                        ELSE toLowerCase(error.message)
         IN  \/ includes(message, QUOTA)
             \/ includes(message, RATE_LIMIT)
             \/ includes(message, TOO_MANY_REQUESTS)

(***************************************************************************)
(* The values operation() can throw or return.                             *)
(***************************************************************************)
S_boom == <<"b","o","o","m">>
S_Quota == <<"Q","u","o","t","a"," ","e","x","c","e","e","d","e","d">>
S_QUOTA == <<"D","A","I","L","Y"," ","Q","U","O","T","A">>
S_quot == <<"q","u","o","t"," ","a">>
S_RateLimit == <<"R","a","t","e"," ","L","i","m","i","t">>
S_ratelimit == <<"r","a","t","e","l","i","m","i","t">>
S_TooMany == <<"4","2","9"," ","T","o","o"," ","M","a","n","y"," ","R","e","q","u","e","s","t","s">>
S_tooManyRequest == <<"t","o","o"," ","m","a","n","y"," ","r","e","q","u","e","s","t">>
S_unavailable == <<"S","e","r","v","i","c","e"," ","U","n","a","v","a","i","l","a","b","l","e">>
S_daily == <<"d","a","i","l","y"," ","l","i","m","i","t">>
S_ok == <<"{","}">>

Messages == {<<>>, S_boom, S_Quota, S_QUOTA, S_quot, S_RateLimit, S_ratelimit,
             S_TooMany, S_tooManyRequest, S_unavailable, S_daily}
Statuses == {NoStatus, 400, 429, 500, 503}

JsObject(status, message) ==
    [type |-> "object", status |-> status, message |-> message, text |-> Undefined, n |-> 0]
JsString(text) ==
    [type |-> "string", status |-> NoStatus, message |-> Undefined, text |-> text, n |-> 0]
JsNull == [type |-> "null", status |-> NoStatus, message |-> Undefined, text |-> Undefined, n |-> 0]

ThrownValues ==
    {JsObject(st, m) : st \in Statuses, m \in Messages \cup {Undefined}}
        \cup {JsString(QUOTA), JsString(S_boom), JsNull}

\* what the wrapped operation throws in the withRetry runs
OperationErrors ==
    {JsObject(429, S_TooMany), JsObject(503, Undefined), JsObject(NoStatus, S_boom),
     JsObject(NoStatus, S_Quota), JsObject(500, S_unavailable), JsString(QUOTA)}
OperationResults == {JsString(S_ok)}

(***************************************************************************)
(* withRetry                                                               *)
(***************************************************************************)
InvocationNumber == Len(calls) + 1

\* the sleep made before the initial attempt too
LoopHead_alwaysSleeps ==
    /\ pc = "loop"
    /\ sleeps' = Append(sleeps, getBackoffDelay(IF attempt > 0 THEN attempt - 1 ELSE 0))
    /\ pc' = "op"
    /\ UNCHANGED <<attempt, lastError, calls, settled>>

\* for (attempt ...) { try { if (attempt > 0) { await sleep(delay) }
LoopHead ==
    /\ pc = "loop"
    /\ IF attempt > 0
       THEN sleeps' = Append(sleeps, getBackoffDelay(attempt - 1))
       ELSE sleeps' = sleeps
    /\ pc' = "op"
    /\ UNCHANGED <<attempt, lastError, calls, settled>>

\* const result = await operation(); return result;
OperationReturns ==
    /\ pc = "op"
    /\ \E v \in OperationResults :
        LET result == [v EXCEPT !.n = InvocationNumber]
        IN  /\ calls' = Append(calls, [threw |-> FALSE, val |-> result])
            /\ settled' = [threw |-> FALSE, val |-> result]
    /\ pc' = "returned"
    /\ UNCHANGED <<attempt, lastError, sleeps>>

\* lastError assigned only when it is still unset, and thrown at the end
OperationThrows_firstError ==
    /\ pc = "op"
    /\ \E e \in OperationErrors :
        LET error == [e EXCEPT !.n = InvocationNumber]
            kept == IF calls = <<>> THEN error ELSE lastError
        IN  /\ calls' = Append(calls, [threw |-> TRUE, val |-> error])
            /\ lastError' = kept
            /\ IF ~isRetryableError(error) \/ attempt = MAX_RETRIES
               THEN /\ settled' = [threw |-> TRUE, val |-> kept]
                    /\ pc' = "thrown"
                    /\ attempt' = attempt
               ELSE /\ settled' = settled
                    /\ pc' = "loop"
                    /\ attempt' = attempt + 1
    /\ UNCHANGED sleeps

\* } catch (error) { lastError = error; ... throw error ... } } throw lastError
OperationThrows ==
    /\ pc = "op"
    /\ \E e \in OperationErrors :
        LET error == [e EXCEPT !.n = InvocationNumber]
        IN  /\ calls' = Append(calls, [threw |-> TRUE, val |-> error])
            /\ lastError' = error
            /\ IF ~isRetryableError(error)
               THEN /\ settled' = [threw |-> TRUE, val |-> error]
                    /\ pc' = "thrown"
                    /\ attempt' = attempt
               ELSE IF attempt = MAX_RETRIES
               THEN /\ settled' = [threw |-> TRUE, val |-> error]
                    /\ pc' = "thrown"
                    /\ attempt' = attempt
               ELSE IF attempt + 1 <= MAX_RETRIES
               THEN /\ settled' = settled
                    /\ pc' = "loop"
                    /\ attempt' = attempt + 1
               ELSE /\ settled' = [threw |-> TRUE, val |-> error]
                    /\ pc' = "thrown"
                    /\ attempt' = attempt + 1
    /\ UNCHANGED sleeps

NoValue == [threw |-> FALSE, val |-> JsNull]

(***************************************************************************)
(* isRetryableError applied to one thrown value                            *)
(***************************************************************************)
NotCalled == [done |-> FALSE, fn |-> "", value |-> FALSE, text |-> <<>>, first |-> <<>>,
              n |-> 0]

CallIsRetryableError ==
    /\ ~ret.done
    /\ ret' = [NotCalled EXCEPT !.done = TRUE, !.fn = "isRetryableError",
                                !.value = isRetryableError(arg), !.n = 1]
    /\ UNCHANGED arg

(***************************************************************************)
(* getErrorMessage applied to one thrown value                             *)
(***************************************************************************)
\* the texts getErrorMessage returns; each is kept whole, as a sequence of one
\* piece, since nothing looks inside them
QUOTA_EXHAUSTED_MESSAGE ==
    <<"API quota exceeded for today. Please try again tomorrow or enable billing in Google AI Studio.">>
RATE_LIMIT_MESSAGE == <<"Rate limit exceeded. System is retrying automatically...">>
UNAVAILABLE_MESSAGE == <<"Gemini service temporarily unavailable. Retrying automatically...">>
REQUEST_FAILED_MESSAGE == <<"Analysis request failed">>
UNKNOWN_ERROR_MESSAGE == <<"Unknown error occurred">>
DAILY == <<"d","a","i","l","y">>

\* the test for 'daily' left out
getErrorMessage_noDaily(error) ==
    IF error.type # "object" THEN UNKNOWN_ERROR_MESSAGE
    ELSE IF error.status = 429 THEN RATE_LIMIT_MESSAGE
    ELSE IF error.status = 503 THEN UNAVAILABLE_MESSAGE
    ELSE IF error.message = Undefined \/ error.message = <<>>
    THEN REQUEST_FAILED_MESSAGE
    ELSE error.message

getErrorMessage(error) ==
    IF error.type # "object" THEN UNKNOWN_ERROR_MESSAGE
    ELSE LET message == IF error.message = Undefined \/ error.message = <<>>
                        THEN <<>>
                        ELSE toLowerCase(error.message)
         IN  IF error.status = 429
             THEN IF includes(message, DAILY)
                  THEN QUOTA_EXHAUSTED_MESSAGE
                  ELSE RATE_LIMIT_MESSAGE
             ELSE IF error.status = 503 THEN UNAVAILABLE_MESSAGE
             ELSE IF error.message = Undefined \/ error.message = <<>>
             THEN REQUEST_FAILED_MESSAGE
             ELSE error.message

\* the calls of getErrorMessage made on one error
MaxCalls == 2

CallGetErrorMessage ==
    /\ ret.fn \in {"", "getErrorMessage"}
    /\ ret.n < MaxCalls
    /\ LET text == getErrorMessage(arg)
       IN  ret' = [ret EXCEPT !.done = TRUE, !.fn = "getErrorMessage", !.text = text,
                              !.first = IF ret.n = 0 THEN text ELSE ret.first,
                              !.n = ret.n + 1]
    /\ UNCHANGED arg

(***************************************************************************)
(* Claims about withRetry, getBackoffDelay and isRetryableError            *)
(***************************************************************************)
Finished == pc \in {"returned", "thrown"}
Attempts == Len(calls)

\* C1: withRetry invokes the operation at most 4 times; when every attempt
\* fails with status 429 or 503 it makes exactly 4 attempts and then fails.
C1_AtMostFourAttempts ==
    /\ Attempts <= 4
    /\ (Finished /\ \A i \in 1..Attempts :
                        calls[i].threw /\ calls[i].val.status \in {429, 503})
        => (Attempts = 4 /\ pc = "thrown" /\ settled.threw)

C1_Witness ==
    /\ pc = "thrown"
    /\ Attempts = 4
    /\ \A i \in 1..4 : calls[i].threw /\ calls[i].val.status = 503

\* the case-insensitive reading of "the message contains the phrase", stated
\* without toLowerCase: each character is the phrase's or its capital
SameLetter(c, l) == c = l \/ \E i \in 1..Len(Lower) : Lower[i] = l /\ Upper[i] = c
ContainsPhrase(m, phrase) ==
    /\ m # Undefined
    /\ \E i \in 0..(Len(m) - Len(phrase)) :
        \A j \in 1..Len(phrase) : SameLetter(m[i + j], phrase[j])
RetryableAsSpecified(e) ==
    /\ e.type = "object"
    /\ \/ e.status \in {429, 503}
       \/ ContainsPhrase(e.message, QUOTA)
       \/ ContainsPhrase(e.message, RATE_LIMIT)
       \/ ContainsPhrase(e.message, TOO_MANY_REQUESTS)

\* C2: the first attempt that fails with a non-retryable error ends the call
\* with that error: it is the last invocation, no sleep follows it, and a plain
\* 'boom' error on the first attempt means exactly one invocation.
C2_NonRetryableEndsCall ==
    \A i \in 1..Attempts :
        (calls[i].threw /\ ~RetryableAsSpecified(calls[i].val))
            => /\ i = Attempts
               /\ pc = "thrown"
               /\ settled = [threw |-> TRUE, val |-> calls[i].val]
               /\ Len(sleeps) = i - 1

C2_Witness ==
    /\ pc = "thrown"
    /\ Attempts = 1
    /\ calls[1].val.status = NoStatus
    /\ calls[1].val.message = S_boom
    /\ sleeps = <<>>

\* C3: withRetry returns the result of the first attempt that succeeds and
\* invokes the operation no more; after n retryable failures (n <= 3) and a
\* success it has made exactly n retries.
C3_ReturnsFirstSuccess ==
    /\ \A i \in 1..Attempts : ~calls[i].threw => (i = Attempts /\ pc = "returned")
    /\ pc = "returned" =>
        /\ ~calls[Attempts].threw
        /\ settled = [threw |-> FALSE, val |-> calls[Attempts].val]
        /\ attempt = Attempts - 1
        /\ Len(sleeps) = Attempts - 1
        /\ Attempts - 1 <= 3

C3_Witness ==
    /\ pc = "returned"
    /\ Attempts = 3
    /\ calls[1].val.status = 429
    /\ calls[2].val.status = 429
    /\ Len(sleeps) = 2
    /\ settled.val.text = S_ok

\* C4: when withRetry fails, the error it throws is the one raised by the last
\* attempt it executed, never one of an earlier attempt.
C4_ThrowsMostRecentError ==
    pc = "thrown" =>
        /\ settled.threw
        /\ calls[Attempts].threw
        /\ settled.val = calls[Attempts].val
        /\ settled.val.n = Attempts

C4_Witness ==
    /\ pc = "thrown"
    /\ Attempts = 4
    /\ calls[1].val.status = 429
    /\ calls[4].val.status = 503

\* the largest argument getBackoffDelay is evaluated at
MaxBackoffAttempt == 5

\* C5: getBackoffDelay(k) = min(2000 * 2^k, 8000): 2000, 4000, 8000 and 8000
\* for k = 0..3; withRetry sleeps 2000, 4000, 8000 ms before retries 1, 2, 3,
\* never before the initial attempt and never after the final failed one.
C5_BackoffSchedule ==
    /\ getBackoffDelay(0) = 2000
    /\ getBackoffDelay(1) = 4000
    /\ getBackoffDelay(2) = 8000
    /\ getBackoffDelay(3) = 8000
    /\ \A k \in 0..MaxBackoffAttempt :
        getBackoffDelay(k) = IF 2000 * (2 ^ k) < 8000 THEN 2000 * (2 ^ k) ELSE 8000
    /\ \A k \in 1..Len(sleeps) : sleeps[k] = <<2000, 4000, 8000>>[k]
    /\ Len(sleeps) <= 3
    /\ Len(sleeps) = IF pc = "op" THEN Attempts
                     ELSE IF Attempts = 0 THEN 0 ELSE Attempts - 1

C5_Witness ==
    /\ pc = "thrown"
    /\ Attempts = 4
    /\ sleeps = <<2000, 4000, 8000>>

MessageDone == ret.done /\ ret.fn = "getErrorMessage"

\* the message as claimed: the value's own message where it has one
MessageAsClaimed(e) ==
    IF e.status = 429
    THEN IF e.message # Undefined /\ ContainsPhrase(e.message, DAILY)
         THEN QUOTA_EXHAUSTED_MESSAGE
         ELSE RATE_LIMIT_MESSAGE
    ELSE IF e.status = 503 THEN UNAVAILABLE_MESSAGE
    ELSE IF e.message # Undefined /\ e.message # <<>> THEN e.message
    ELSE REQUEST_FAILED_MESSAGE

\* C23 as claimed: status 429 with 'daily' in the message gives the
\* quota-exhausted message, any other 429 the rate-limit message, 503 the
\* service-unavailable message, the three being distinct, and any other error
\* its own message text or, when it has none, 'Analysis request failed'; the
\* same error always gives the same message.
C23_Original ==
    /\ QUOTA_EXHAUSTED_MESSAGE # RATE_LIMIT_MESSAGE
    /\ QUOTA_EXHAUSTED_MESSAGE # UNAVAILABLE_MESSAGE
    /\ RATE_LIMIT_MESSAGE # UNAVAILABLE_MESSAGE
    /\ MessageDone => (ret.text = MessageAsClaimed(arg) /\ ret.text = ret.first)

\* C23 as amended: as claimed for every error that is an object, 'daily' being
\* found in any letter case; a thrown value that is not an object (null, a
\* string) gives 'Unknown error occurred'; the call changes nothing but its
\* result, and a second call on the same error returns the same message.
C23_ErrorMessage ==
    /\ QUOTA_EXHAUSTED_MESSAGE # RATE_LIMIT_MESSAGE
    /\ QUOTA_EXHAUSTED_MESSAGE # UNAVAILABLE_MESSAGE
    /\ RATE_LIMIT_MESSAGE # UNAVAILABLE_MESSAGE
    /\ MessageDone =>
        /\ ret.text = IF arg.type = "object" THEN MessageAsClaimed(arg)
                      ELSE UNKNOWN_ERROR_MESSAGE
        /\ ret.text = ret.first
        /\ ~ret.value

\* a 429 whose message says DAILY QUOTA in capitals, asked twice
C23_Witness ==
    /\ MessageDone
    /\ ret.n = 2
    /\ arg.status = 429
    /\ arg.message = S_QUOTA
    /\ ret.text = QUOTA_EXHAUSTED_MESSAGE

\* C6: isRetryableError(e) is true exactly when e is an object with status 429
\* or 503 or with a message containing, in any letter case, 'quota',
\* 'rate limit' or 'too many requests'.
C6_RetryableClassification ==
    ret.done => (ret.value <=> RetryableAsSpecified(arg))

C6_Witness ==
    /\ ret.done
    /\ ret.value
    /\ arg.status = NoStatus
    /\ arg.message = S_RateLimit

(***************************************************************************)
(* The journal                                                             *)
(***************************************************************************)
MAX_ENTRIES == 50

TradeOutcomes == {"WIN", "LOSS", "BREAKEVEN", "PENDING"}

\* an optional property: def is FALSE when it is undefined
Some(v) == [def |-> TRUE, v |-> v]
UndefStr == [def |-> FALSE, v |-> ""]
UndefNum == [def |-> FALSE, v |-> 0]
UndefBool == [def |-> FALSE, v |-> FALSE]

\* localStorage.getItem(STORAGE_KEY): null, or the text of a journal
Absent == [kind |-> "absent", entries |-> <<>>]
Stored(entries) == [kind |-> "journal", entries |-> entries]
\* stored text that is not a journal: text that JSON.parse rejects, and the JSON
\* texts null, 5 and {}
Unparsable == [kind |-> "unparsable", entries |-> <<>>]
JsonNull == [kind |-> "null", entries |-> <<>>]
JsonNumber == [kind |-> "number", entries |-> <<>>]
JsonNoEntries == [kind |-> "object", entries |-> <<>>]
CorruptStores == {Unparsable, JsonNull, JsonNumber, JsonNoEntries}

\* every exception of the body is logged and dropped
tryCatch_rethrows(raised) == raised

\* try { body } catch (error) { console.error(...) }: whether the function throws
\* to its caller when its body raised or did not raise an exception
tryCatch(raised) == FALSE

\* the promise of createThumbnail settles: resolved with the data URL, or
\* rejected by reader.onerror, by img.onerror, or for want of a 2d context
ThumbnailSteps == {"resolved", "reader.onerror", "img.onerror", "no context"}
THUMBNAIL == "data:image/jpeg;base64"

\* the rejection handler keeping a placeholder image
thumbnailOf_placeholder(step) == IF step = "resolved" THEN THUMBNAIL ELSE "placeholder"

\* let thumbnail = ''; try { thumbnail = await createThumbnail(imageFile) }
\* catch (thumbError) { thumbnail = '' }
thumbnailOf(step) == IF step = "resolved" THEN THUMBNAIL ELSE ""

\* getJournal(): thrown is TRUE when using .entries of the result throws
getJournal(st) ==
    CASE st.kind = "absent" -> [thrown |-> FALSE, entries |-> <<>>]
      [] st.kind = "unparsable" -> [thrown |-> FALSE, entries |-> <<>>]
      [] st.kind = "journal" -> [thrown |-> FALSE, entries |-> st.entries]
      [] OTHER -> [thrown |-> TRUE, entries |-> <<>>]

\* what the setItem calls of one saveJournalToStorage do: the first succeeds, or
\* fails with QuotaExceededError or with another error; the second, made only
\* after a QuotaExceededError, succeeds or fails
WriteBehaviours == {<<"ok", "ok">>, <<"quota", "ok">>, <<"quota", "quota">>, <<"error", "ok">>}

\* a failed second setItem leaving the shortened list behind
saveJournalToStorage_torn(entries, st, w1, w2) ==
    IF w1 = "ok"
    THEN [saved |-> TRUE, entries |-> entries, storage |-> Stored(entries), attempts |-> 1]
    ELSE IF w1 = "quota" /\ Len(entries) > 1
    THEN LET sliced == SubSeq(entries, 1, Len(entries) - 1)
         IN  [saved |-> w2 = "ok", entries |-> sliced, storage |-> Stored(sliced),
              attempts |-> 2]
    ELSE [saved |-> FALSE, entries |-> entries, storage |-> st, attempts |-> 1]

\* saveJournalToStorage(journal) when the first setItem ends w1 and the
\* second, if made, w2: the value returned, journal.entries afterwards, the
\* stored value afterwards, and the number of setItem calls
saveJournalToStorage(entries, st, w1, w2) ==
    IF w1 = "ok"
    THEN [saved |-> TRUE, entries |-> entries, storage |-> Stored(entries), attempts |-> 1]
    ELSE IF w1 = "quota" /\ Len(entries) > 1
    THEN LET sliced == SubSeq(entries, 1, Len(entries) - 1)
         IN  IF w2 = "ok"
             THEN [saved |-> TRUE, entries |-> sliced, storage |-> Stored(sliced),
                   attempts |-> 2]
             ELSE [saved |-> FALSE, entries |-> sliced, storage |-> st, attempts |-> 2]
    ELSE [saved |-> FALSE, entries |-> entries, storage |-> st, attempts |-> 1]

findIndex(entries, id) ==
    IF \E i \in 1..Len(entries) : entries[i].id = id
    THEN CHOOSE i \in 1..Len(entries) :
            /\ entries[i].id = id
            /\ \A j \in 1..(i - 1) : entries[j].id # id
    ELSE 0

RECURSIVE filterOut(_, _)
filterOut(entries, id) ==
    IF entries = <<>> THEN <<>>
    ELSE IF Head(entries).id = id THEN filterOut(Tail(entries), id)
    ELSE <<Head(entries)>> \o filterOut(Tail(entries), id)

\* journal.entries.unshift(entry) replaced by push
unshift_push(entries, entry) == entries \o <<entry>>

\* journal.entries.unshift(entry)
unshift(entries, entry) == <<entry>> \o entries

\* the truncation left out
keepMaxEntries_none(entries) == entries

\* slice(-MAX_ENTRIES) in place of slice(0, MAX_ENTRIES)
keepMaxEntries_newestDropped(entries) ==
    IF Len(entries) > MAX_ENTRIES
    THEN SubSeq(entries, Len(entries) - MAX_ENTRIES + 1, Len(entries))
    ELSE entries

\* if (journal.entries.length > MAX_ENTRIES) journal.entries = slice(0, MAX_ENTRIES)
keepMaxEntries(entries) ==
    IF Len(entries) > MAX_ENTRIES
    THEN SubSeq(entries, 1, MAX_ENTRIES)
    ELSE entries

\* the arguments of a saveJournalEntry call
ScalpingBuy ==
    [mode |-> "scalping", imageFileName |-> "ltf.png", decision |-> "BUY",
     confidence_score |-> "High", pair |-> UndefStr, isConfluence |-> Some(TRUE)]
SwingSell ==
    [mode |-> "swing", imageFileName |-> "htf.png", decision |-> "SELL",
     confidence_score |-> "Low", pair |-> Some("EURUSD"), isConfluence |-> UndefBool]
SwingWait ==
    [mode |-> "swing", imageFileName |-> "htf.png", decision |-> "WAIT",
     confidence_score |-> "Medium", pair |-> Some(""), isConfluence |-> Some(FALSE)]
SaveArgs == {ScalpingBuy, SwingSell, SwingWait}

NoCall == [mode |-> "", imageFileName |-> "", decision |-> "",
           confidence_score |-> "", pair |-> UndefStr, isConfluence |-> UndefBool]

\* an entry that starts with an outcome outside TradeOutcome
NewEntry_open(a, thumbnail, id, t) ==
    [id |-> id, timestamp |-> t, mode |-> a.mode, imageThumbnail |-> thumbnail,
     imageFileName |-> a.imageFileName, decision |-> a.decision,
     confidence |-> a.confidence_score,
     analysis |-> [decision |-> a.decision, confidence_score |-> a.confidence_score],
     outcome |-> "OPEN", outcomeUpdatedAt |-> UndefNum,
     pair |-> IF a.pair.def /\ a.pair.v # "" THEN a.pair ELSE UndefStr,
     notes |-> UndefStr, pnl |-> UndefNum,
     isConfluence |-> IF a.isConfluence.def /\ a.isConfluence.v = TRUE THEN TRUE ELSE FALSE]

\* const entry: JournalEntry = { ... }
NewEntry(a, thumbnail, id, t) ==
    [id |-> id, timestamp |-> t, mode |-> a.mode, imageThumbnail |-> thumbnail,
     imageFileName |-> a.imageFileName, decision |-> a.decision,
     confidence |-> a.confidence_score,
     analysis |-> [decision |-> a.decision, confidence_score |-> a.confidence_score],
     outcome |-> "PENDING", outcomeUpdatedAt |-> UndefNum,
     pair |-> IF a.pair.def /\ a.pair.v # "" THEN a.pair ELSE UndefStr,
     notes |-> UndefStr, pnl |-> UndefNum,
     isConfluence |-> IF a.isConfluence.def /\ a.isConfluence.v = TRUE THEN TRUE ELSE FALSE]

\* saveJournalEntry after createThumbnail settled: the stored value afterwards,
\* the number of setItem calls, whether a write stored the entry, and whether the
\* call threw. thumbnail is "" when createThumbnail rejected
saveJournalEntryAfterThumbnail(st, a, thumbnail, id, t, w1, w2, w3, w4) ==
    LET journal == getJournal(st)
        entry == NewEntry(a, thumbnail, id, t)
        kept == keepMaxEntries(unshift(journal.entries, entry))
        first == saveJournalToStorage(kept, st, w1, w2)
        bare == [first.entries EXCEPT ![1] = [entry EXCEPT !.imageThumbnail = ""]]
        second == saveJournalToStorage(bare, first.storage, w3, w4)
    IN  IF journal.thrown
        THEN [storage |-> st, attempts |-> 0, saved |-> FALSE,
              threw |-> tryCatch(TRUE)]
        ELSE IF ~first.saved /\ thumbnail # ""
        THEN [storage |-> second.storage, attempts |-> first.attempts + second.attempts,
              saved |-> second.saved, threw |-> tryCatch(FALSE)]
        ELSE [storage |-> first.storage, attempts |-> first.attempts,
              saved |-> first.saved, threw |-> tryCatch(FALSE)]

\* updateJournalOutcome(id, outcome, notes, pnl) at time t
updateJournalOutcome(st, id, outcome, notes, pnl, t, w1, w2) ==
    LET journal == getJournal(st)
        entryIndex == findIndex(journal.entries, id)
        old == journal.entries[entryIndex]
        updated == [journal.entries EXCEPT ![entryIndex] =
                       [old EXCEPT !.outcome = outcome,
                                   !.outcomeUpdatedAt = Some(t),
                                   !.notes = IF notes.def THEN notes ELSE old.notes,
                                   !.pnl = IF pnl.def THEN pnl ELSE old.pnl]]
        written == saveJournalToStorage(updated, st, w1, w2)
    IN  IF journal.thrown \/ entryIndex = 0
        THEN [storage |-> st, result |-> FALSE, attempts |-> 0]
        ELSE [storage |-> written.storage, result |-> written.saved,
              attempts |-> written.attempts]

\* updateJournalPair(id, pair)
updateJournalPair(st, id, pair, w1, w2) ==
    LET journal == getJournal(st)
        entryIndex == findIndex(journal.entries, id)
        updated == [journal.entries EXCEPT ![entryIndex].pair = Some(pair)]
        written == saveJournalToStorage(updated, st, w1, w2)
    IN  IF journal.thrown \/ entryIndex = 0
        THEN [storage |-> st, result |-> FALSE, attempts |-> 0]
        ELSE [storage |-> written.storage, result |-> written.saved,
              attempts |-> written.attempts]

\* deleteJournalEntry(id)
deleteJournalEntry(st, id, w1, w2) ==
    LET journal == getJournal(st)
        written == saveJournalToStorage(filterOut(journal.entries, id), st, w1, w2)
    IN  IF journal.thrown
        THEN [storage |-> st, result |-> FALSE, attempts |-> 0]
        ELSE [storage |-> written.storage, result |-> written.saved,
              attempts |-> written.attempts]

\* clearJournal(): localStorage.removeItem(STORAGE_KEY)
clearJournal(st) == Absent

\* the outcome property of an entry stored without one
NoOutcome == "undefined"

\* a number that is a quotient: num / den
Quotient(num, den) == [num |-> num, den |-> den]
Zero == Quotient(0, 1)

\* the quotient left without the factor 100
percent_fraction(part, whole) == IF whole > 0 THEN Quotient(part, whole) ELSE Zero

\* whole > 0 ? (part / whole) * 100 : 0
percent(part, whole) == IF whole > 0 THEN Quotient(part * 100, whole) ELSE Zero

\* the sort key without outcomeUpdatedAt
outcomeTime_timestamp(e) == e.timestamp

\* e.outcomeUpdatedAt || e.timestamp
outcomeTime(e) ==
    IF e.outcomeUpdatedAt.def /\ e.outcomeUpdatedAt.v # 0
    THEN e.outcomeUpdatedAt.v
    ELSE e.timestamp

\* e put into a list sorted by descending outcomeTime, behind the entries that
\* compare equal to it
RECURSIVE insertByOutcomeTime(_, _)
insertByOutcomeTime(sorted, e) ==
    IF sorted = <<>> THEN <<e>>
    ELSE IF outcomeTime(Head(sorted)) - outcomeTime(e) >= 0
    THEN <<Head(sorted)>> \o insertByOutcomeTime(Tail(sorted), e)
    ELSE <<e>> \o sorted

\* .sort((a, b) => (b.outcomeUpdatedAt || b.timestamp) - (a.outcomeUpdatedAt || a.timestamp)):
\* the sort of Array.prototype.sort is stable
RECURSIVE sortByOutcomeTime(_)
sortByOutcomeTime(entries) ==
    IF entries = <<>> THEN <<>>
    ELSE insertByOutcomeTime(sortByOutcomeTime(SubSeq(entries, 1, Len(entries) - 1)),
                             entries[Len(entries)])

\* for (const entry of sortedByOutcome) { if (entry.outcome === firstOutcome)
\* currentStreak++ else break }
RECURSIVE leadingRun(_, _)
leadingRun(sorted, firstOutcome) ==
    IF sorted = <<>> THEN 0
    ELSE IF Head(sorted).outcome = firstOutcome
    THEN 1 + leadingRun(Tail(sorted), firstOutcome)
    ELSE 0

\* the sum of the gains only
RECURSIVE sumPnl_gains(_)
sumPnl_gains(entries) ==
    IF entries = <<>> THEN 0
    ELSE (IF Head(entries).pnl.v > 0 THEN Head(entries).pnl.v ELSE 0)
            + sumPnl_gains(Tail(entries))

\* entriesWithPnl.reduce((sum, e) => sum + (e.pnl || 0), 0)
RECURSIVE sumPnl(_)
sumPnl(entries) ==
    IF entries = <<>> THEN 0 ELSE Head(entries).pnl.v + sumPnl(Tail(entries))

NoStats ==
    [total |-> 0, winCount |-> 0, lossCount |-> 0, breakEvenCount |-> 0,
     pendingCount |-> 0, winRate |-> Zero, winRateScalping |-> Zero,
     winRateSwing |-> Zero, currentStreak |-> 0, streakType |-> "NONE",
     totalPnl |-> 0, avgPnl |-> Zero]

\* getJournalStats(): threw is TRUE when it throws to its caller
\* a per-mode denominator that leaves break-even entries out
isResolvedInMode_decided(e) ==
    e.outcome # NoOutcome /\ e.outcome # "PENDING" /\ e.outcome # "BREAKEVEN"

\* the filter of scalpingResolved and swingResolved: e.outcome && e.outcome !== 'PENDING'
isResolvedInMode(e) == e.outcome # NoOutcome /\ e.outcome # "PENDING"

getJournalStats(st) ==
    LET journal == getJournal(st)
        entries == journal.entries
        IsWin(e) == e.outcome = "WIN"
        IsLoss(e) == e.outcome = "LOSS"
        IsBreakEven(e) == e.outcome = "BREAKEVEN"
        IsPending(e) == e.outcome = NoOutcome \/ e.outcome = "PENDING"
        IsScalping(e) == e.mode = "scalping"
        IsSwing(e) == e.mode = "swing"
        IsResolved(e) == isResolvedInMode(e)
        IsStreak(e) == e.outcome # NoOutcome /\ e.outcome # "PENDING"
                           /\ e.outcome # "BREAKEVEN"
        HasPnl(e) == e.pnl.def
        winCount == Len(SelectSeq(entries, IsWin))
        lossCount == Len(SelectSeq(entries, IsLoss))
        breakEvenCount == Len(SelectSeq(entries, IsBreakEven))
        pendingCount == Len(SelectSeq(entries, IsPending))
        resolvedTrades == winCount + lossCount + breakEvenCount
        scalpingEntries == SelectSeq(entries, IsScalping)
        swingEntries == SelectSeq(entries, IsSwing)
        scalpingWins == Len(SelectSeq(scalpingEntries, IsWin))
        scalpingResolved == Len(SelectSeq(scalpingEntries, IsResolved))
        swingWins == Len(SelectSeq(swingEntries, IsWin))
        swingResolved == Len(SelectSeq(swingEntries, IsResolved))
        sortedByOutcome == sortByOutcomeTime(SelectSeq(entries, IsStreak))
        entriesWithPnl == SelectSeq(entries, HasPnl)
        totalPnl == sumPnl(entriesWithPnl)
    IN  IF journal.thrown
        THEN [threw |-> TRUE, stats |-> NoStats]
        ELSE [threw |-> FALSE,
              stats |->
                [total |-> Len(entries),
                 winCount |-> winCount,
                 lossCount |-> lossCount,
                 breakEvenCount |-> breakEvenCount,
                 pendingCount |-> pendingCount,
                 winRate |-> percent(winCount, resolvedTrades),
                 winRateScalping |-> percent(scalpingWins, scalpingResolved),
                 winRateSwing |-> percent(swingWins, swingResolved),
                 currentStreak |->
                    IF Len(sortedByOutcome) > 0
                    THEN leadingRun(sortedByOutcome, sortedByOutcome[1].outcome)
                    ELSE 0,
                 streakType |->
                    IF Len(sortedByOutcome) > 0 THEN sortedByOutcome[1].outcome
                    ELSE "NONE",
                 totalPnl |-> totalPnl,
                 avgPnl |-> IF Len(entriesWithPnl) > 0
                            THEN Quotient(totalPnl, Len(entriesWithPnl))
                            ELSE Zero]]

(***************************************************************************)
(* The journal as a state machine                                          *)
(***************************************************************************)
\* journal operations started in one run, and clock ticks in one run
MaxOps == 1
MaxTicks == 1

\* the store after k <= MAX_ENTRIES saveJournalEntry calls on an empty store, one
\* per millisecond from time 1 on, every thumbnail made and every write succeeding
Fill(k) ==
    IF k = 0 THEN Absent
    ELSE Stored([i \in 1..k |->
                    NewEntry(IF (k + 1 - i) % 2 = 0 THEN ScalpingBuy ELSE SwingSell,
                             THUMBNAIL, k + 1 - i, k + 1 - i)])

\* Fill is what sequential saves produce: each store is the previous one after
\* one more saveJournalEntry
FillIsSequentialSaves ==
    \A k \in 0..(MAX_ENTRIES - 1) :
        Fill(k + 1) = saveJournalEntryAfterThumbnail(
                          Fill(k), IF (k + 1) % 2 = 0 THEN ScalpingBuy ELSE SwingSell,
                          THUMBNAIL, k + 1, k + 1, "ok", "ok", "ok", "ok").storage

LabelTime == MAX_ENTRIES + 1
StartTime == MAX_ENTRIES + 2

\* the store st with its newest entry marked a WIN and its oldest a LOSS, both
\* at LabelTime, every write succeeding
Labelled(st) ==
    LET entries == getJournal(st).entries
        won == updateJournalOutcome(st, entries[1].id, "WIN", Some("held overnight"),
                                    Some(25), LabelTime, "ok", "ok").storage
    IN  updateJournalOutcome(won, entries[Len(entries)].id, "LOSS", UndefStr,
                             Some(-10), LabelTime, "ok", "ok").storage

\* the stores a run starts from: empty, two entries, full, and the stored texts
\* that are not a journal
\* two entries stored before entries had an outcome (outcome?: TradeOutcome)
LegacyStore ==
    Stored([i \in 1..2 |->
               [NewEntry(SwingSell, THUMBNAIL, 3 - i, 3 - i) EXCEPT !.outcome = NoOutcome]])

InitialStores ==
    {Fill(0), Labelled(Fill(2)), Labelled(Fill(MAX_ENTRIES)), LegacyStore} \cup CorruptStores

\* during says that the operation ran while a saveJournalEntry call was
\* suspended on createThumbnail; prev is, for a saveJournalEntry that resumed,
\* the operation that ran last while it was suspended
NoPrev == [op |-> "none", id |-> 0, outcome |-> "", pair |-> "", result |-> FALSE,
           write |-> ""]
NoOp == [op |-> "none", id |-> 0, outcome |-> "", notes |-> UndefStr, pnl |-> UndefNum,
         pair |-> "", args |-> NoCall, step |-> "", thumbnail |-> "", result |-> FALSE,
         attempts |-> 0, write |-> "", before |-> Absent, t |-> 0, threw |-> FALSE,
         stats |-> NoStats, during |-> FALSE, prev |-> NoPrev]

\* the store a resumed saveJournalEntry writes over, had it read the journal
\* before the operation that ran while it was suspended
journalReadBySave_stale(st, l) == IF l.during THEN l.before ELSE st

\* const journal = getJournal() comes after the await of createThumbnail: the
\* store as it is when the call resumes
journalReadBySave(st, l) == st

\* the entries getJournalStats is applied to
MaxStatsEntries == 4

\* an entry as the statistics see it: its outcome, its mode, whether its outcome
\* was set after every entry was created, and its pnl
StatsProfiles ==
    {[outcome |-> "WIN", mode |-> "scalping", late |-> FALSE, pnl |-> Some(25)],
     [outcome |-> "WIN", mode |-> "swing", late |-> TRUE, pnl |-> UndefNum],
     [outcome |-> "LOSS", mode |-> "scalping", late |-> TRUE, pnl |-> Some(-10)],
     [outcome |-> "LOSS", mode |-> "swing", late |-> FALSE, pnl |-> UndefNum],
     [outcome |-> "BREAKEVEN", mode |-> "scalping", late |-> TRUE, pnl |-> Some(0)],
     [outcome |-> "BREAKEVEN", mode |-> "swing", late |-> FALSE, pnl |-> UndefNum],
     [outcome |-> "PENDING", mode |-> "swing", late |-> FALSE, pnl |-> UndefNum],
     [outcome |-> NoOutcome, mode |-> "scalping", late |-> FALSE, pnl |-> UndefNum]}

\* the i-th of k entries, newest first, created one per millisecond; an outcome
\* set late was set at 10 + i, the older the entry the later
StatsEntry(p, i, k) ==
    [NewEntry(IF p.mode = "scalping" THEN ScalpingBuy ELSE SwingSell,
              THUMBNAIL, k + 1 - i, k + 1 - i)
        EXCEPT !.outcome = p.outcome,
               !.outcomeUpdatedAt = IF p.late THEN Some(10 + i) ELSE UndefNum,
               !.pnl = p.pnl]

\* the store of k entries with the profiles f[1], ..., f[k]
StatsStore(f, k) == Stored([i \in 1..k |-> StatsEntry(f[i], i, k)])

MissingId == 100 * MAX_ENTRIES
\* the ids an operation is tried on: the newest entry, the oldest, and one
\* that is not in the store
TargetIds ==
    LET entries == getJournal(storage).entries
    IN  {MissingId} \cup (IF entries = <<>> THEN {}
                          ELSE {entries[1].id, entries[Len(entries)].id})

\* (outcome, notes, pnl) of an updateJournalOutcome call; pnl in tenths of a percent
UpdateInputs ==
    {<<"WIN", UndefStr, Some(25)>>, <<"LOSS", Some("stopped out"), UndefNum>>,
     <<"BREAKEVEN", Some(""), Some(0)>>, <<"PENDING", UndefStr, UndefNum>>}

\* the clock advances
Tick ==
    /\ now < StartTime + MaxTicks
    /\ now' = now + 1
    /\ UNCHANGED <<storage, nextId, pending, last, ops>>

\* saveJournalEntry is called and suspends on createThumbnail
SaveJournalEntryCall ==
    /\ ops < MaxOps
    /\ pending = NoCall
    /\ \E a \in SaveArgs : pending' = a
    /\ ops' = ops + 1
    /\ UNCHANGED <<storage, now, nextId, last>>

\* createThumbnail resolves or rejects and saveJournalEntry runs to its end
SaveJournalEntryResume ==
    /\ pending # NoCall
    /\ \E step \in ThumbnailSteps, w \in WriteBehaviours, v \in WriteBehaviours :
        LET thumbnail == thumbnailOf(step)
            r == saveJournalEntryAfterThumbnail(journalReadBySave(storage, last), pending,
                                                thumbnail, nextId, now,
                                                w[1], w[2], v[1], v[2])
        IN  /\ storage' = r.storage
            /\ last' = [NoOp EXCEPT !.op = "saveJournalEntry", !.id = nextId,
                                    !.args = pending, !.step = step,
                                    !.thumbnail = thumbnail,
                                    !.result = r.saved, !.attempts = r.attempts,
                                    !.write = IF r.attempts = 0 THEN "" ELSE w[1],
                                    !.before = storage, !.t = now, !.threw = r.threw,
                                    !.prev = IF last.during
                                             THEN [op |-> last.op, id |-> last.id,
                                                   outcome |-> last.outcome,
                                                   pair |-> last.pair,
                                                   result |-> last.result,
                                                   write |-> last.write]
                                             ELSE NoPrev]
    /\ nextId' = nextId + 1
    /\ pending' = NoCall
    /\ UNCHANGED <<now, ops>>

UpdateJournalOutcome ==
    /\ ops < MaxOps
    /\ \E id \in TargetIds, in \in UpdateInputs, w \in WriteBehaviours :
        LET r == updateJournalOutcome(storage, id, in[1], in[2], in[3], now, w[1], w[2])
        IN  /\ storage' = r.storage
            /\ last' = [NoOp EXCEPT !.op = "updateJournalOutcome", !.id = id,
                                    !.outcome = in[1], !.notes = in[2], !.pnl = in[3],
                                    !.result = r.result, !.attempts = r.attempts,
                                    !.write = IF r.attempts = 0 THEN "" ELSE w[1],
                                    !.before = storage, !.t = now,
                                    !.during = pending # NoCall]
    /\ ops' = ops + 1
    /\ UNCHANGED <<now, nextId, pending>>

UpdateJournalPair ==
    /\ ops < MaxOps
    /\ \E id \in TargetIds, w \in WriteBehaviours :
        LET r == updateJournalPair(storage, id, "BTCUSDT", w[1], w[2])
        IN  /\ storage' = r.storage
            /\ last' = [NoOp EXCEPT !.op = "updateJournalPair", !.id = id,
                                    !.pair = "BTCUSDT",
                                    !.result = r.result, !.attempts = r.attempts,
                                    !.write = IF r.attempts = 0 THEN "" ELSE w[1],
                                    !.before = storage, !.t = now,
                                    !.during = pending # NoCall]
    /\ ops' = ops + 1
    /\ UNCHANGED <<now, nextId, pending>>

DeleteJournalEntry ==
    /\ ops < MaxOps
    /\ \E id \in TargetIds, w \in WriteBehaviours :
        LET r == deleteJournalEntry(storage, id, w[1], w[2])
        IN  /\ storage' = r.storage
            /\ last' = [NoOp EXCEPT !.op = "deleteJournalEntry", !.id = id,
                                    !.result = r.result, !.attempts = r.attempts,
                                    !.write = IF r.attempts = 0 THEN "" ELSE w[1],
                                    !.before = storage, !.t = now,
                                    !.during = pending # NoCall]
    /\ ops' = ops + 1
    /\ UNCHANGED <<now, nextId, pending>>

ClearJournal ==
    /\ ops < MaxOps
    /\ storage' = clearJournal(storage)
    /\ last' = [NoOp EXCEPT !.op = "clearJournal", !.result = TRUE,
                            !.before = storage, !.t = now]
    /\ ops' = ops + 1
    /\ UNCHANGED <<now, nextId, pending>>

\* getJournalStats() is called
GetJournalStats ==
    /\ ops < MaxOps
    /\ LET r == getJournalStats(storage)
       IN  last' = [NoOp EXCEPT !.op = "getJournalStats", !.result = ~r.threw,
                               !.before = storage, !.t = now,
                               !.threw = r.threw, !.stats = r.stats]
    /\ ops' = ops + 1
    /\ UNCHANGED <<storage, now, nextId, pending>>

(***************************************************************************)
(* Claims about the journal                                                *)
(***************************************************************************)
Entries == getJournal(storage).entries
Before == getJournal(last.before).entries
Ids(entries) == [i \in 1..Len(entries) |-> entries[i].id]
IdSet(entries) == {entries[i].id : i \in 1..Len(entries)}
SaveDone == last.op = "saveJournalEntry"
\* the save ran on a store already holding MAX_ENTRIES entries
SaveOnFullStore == SaveDone /\ Len(Before) = 50

\* C7 as claimed: the store never holds more than 50 entries, and a
\* saveJournalEntry that stores its entry on a full store evicts exactly the
\* oldest entry: the new entry is at the head and all but the last of the old
\* entries follow it.
C7_Original ==
    /\ Len(Entries) <= 50
    /\ (SaveOnFullStore /\ last.result) =>
        /\ Len(Entries) = 50
        /\ Entries[1].id = last.id
        /\ SubSeq(Entries, 2, 50) = SubSeq(Before, 1, 49)

\* C7 as amended: the store never holds more than 50 entries; a saveJournalEntry
\* on a full store whose first storage write succeeds evicts exactly the oldest
\* entry; one whose writes all fail leaves the store as it was; one that is
\* stored by a later write puts the new entry at the head of the old entries
\* less their oldest one, two or three (48 to 50 entries in all).
C7_CapacityAndEviction ==
    /\ Len(Entries) <= 50
    /\ (SaveOnFullStore /\ last.result /\ last.attempts = 1) =>
        /\ Len(Entries) = 50
        /\ Entries[1].id = last.id
        /\ SubSeq(Entries, 2, 50) = SubSeq(Before, 1, 49)
        /\ Before[50].id \notin IdSet(Entries)
    /\ (SaveOnFullStore /\ ~last.result) => Entries = Before
    /\ (SaveOnFullStore /\ last.result /\ last.attempts > 1) =>
        /\ Entries[1].id = last.id
        /\ Len(Entries) \in 48..50
        /\ Tail(Entries) = SubSeq(Before, 1, Len(Entries) - 1)

\* 51 entries added one after the other to an empty store, every write
\* succeeding: ids 1..50 were stored and the 51st has just been added
C7_Witness ==
    /\ SaveOnFullStore
    /\ last.result
    /\ last.attempts = 1
    /\ Ids(Before) = [i \in 1..50 |-> 51 - i]
    /\ Len(Entries) = 50
    /\ 1 \notin IdSet(Entries)

\* C8: when the storage write succeeds, after saveJournalEntry the first entry
\* of getJournal() is the new entry, with the given mode, the analysis'
\* decision and confidence_score, and outcome PENDING.
C8_NewEntryFirst ==
    (SaveDone /\ last.result) =>
        /\ Len(Entries) >= 1
        /\ Entries[1].id = last.id
        /\ Entries[1].mode = last.args.mode
        /\ Entries[1].decision = last.args.decision
        /\ Entries[1].confidence = last.args.confidence_score
        /\ Entries[1].outcome = "PENDING"
        /\ last.id \notin IdSet(Before)

C8_Witness ==
    /\ SaveOnFullStore
    /\ last.result
    /\ last.attempts = 1
    /\ last.args.mode = "swing"
    /\ Entries[1].decision = "WAIT"
    /\ Entries[1].confidence = "Medium"

\* the ids of before that are still in after, in the order of before
Remaining(before, after) ==
    LET kept == IdSet(after)
        Kept(id) == id \in kept
    IN  SelectSeq(Ids(before), Kept)

\* C9: the entries are always in newest-first creation order: creation
\* timestamps never increase along the list (ids, given out in creation order,
\* decrease), and updateJournalOutcome, updateJournalPair and
\* deleteJournalEntry keep the relative order of the entries that remain.
C9_NewestFirst ==
    /\ \A i \in 1..(Len(Entries) - 1) :
        /\ Entries[i].timestamp >= Entries[i + 1].timestamp
        /\ Entries[i].id > Entries[i + 1].id
    /\ last.op \in {"updateJournalOutcome", "updateJournalPair", "deleteJournalEntry"} =>
        Ids(Entries) = Remaining(Before, Entries)

C9_Witness ==
    /\ last.op = "deleteJournalEntry"
    /\ last.result
    /\ Len(Before) = 50
    /\ Len(Entries) = 49
    /\ last.id = Before[1].id

EntryOf(entries, id) == entries[findIndex(entries, id)]
UpdateDone == last.op = "updateJournalOutcome"

\* C10 as claimed: an updateJournalOutcome that returns true for an existing
\* entry leaves that entry in the store with the given outcome,
\* outcomeUpdatedAt the current time and newer than its creation timestamp,
\* notes and pnl overwritten only when given, and every other field unchanged.
C10_Original ==
    (UpdateDone /\ last.result /\ last.id \in IdSet(Before)) =>
        /\ last.id \in IdSet(Entries)
        /\ LET old == EntryOf(Before, last.id)
               new == EntryOf(Entries, last.id)
           IN  /\ new.outcome = last.outcome
               /\ new.outcomeUpdatedAt = Some(last.t)
               /\ last.t > new.timestamp
               /\ new.notes = IF last.notes.def THEN last.notes ELSE old.notes
               /\ new.pnl = IF last.pnl.def THEN last.pnl ELSE old.pnl
               /\ new = [old EXCEPT !.outcome = new.outcome,
                                    !.outcomeUpdatedAt = new.outcomeUpdatedAt,
                                    !.notes = new.notes, !.pnl = new.pnl]

\* C11: whenever updateJournalOutcome or updateJournalPair returns false (the
\* id is not in the store, the stored text is not a journal, or no write
\* succeeded), the stored value is exactly what it was before the call.
C11_FalseLeavesStore ==
    (last.op \in {"updateJournalOutcome", "updateJournalPair"} /\ ~last.result) =>
        storage = last.before

\* updateJournalPair on an entry of the full store: the first write fails for
\* quota and so does the retry
C11_Witness ==
    /\ last.op = "updateJournalPair"
    /\ ~last.result
    /\ last.id \in IdSet(Before)
    /\ last.write = "quota"
    /\ last.attempts = 2
    /\ Len(Entries) = 50

\* C12 as claimed: whenever updateJournalOutcome returns true, the store
\* afterwards contains an entry with that id whose outcome is the given one, for
\* every behaviour of the storage write and every position of the entry.
C12_Original ==
    (UpdateDone /\ last.result) =>
        /\ last.id \in IdSet(Entries)
        /\ EntryOf(Entries, last.id).outcome = last.outcome

\* C13 as claimed: a successful updateJournalPair changes only the pair of the
\* entry with that id; every other field of it, every other entry, and the
\* number and order of entries stay, under every behaviour of the storage write.
C13_Original ==
    (last.op = "updateJournalPair" /\ last.result) =>
        Entries = [i \in 1..Len(Before) |->
                      IF Before[i].id = last.id
                      THEN [Before[i] EXCEPT !.pair = Some(last.pair)]
                      ELSE Before[i]]

\* C14 as claimed: deleteJournalEntry removes the entry with that id if present
\* and leaves all other entries and their order unchanged; if no entry has that
\* id the list is unchanged; no error is raised.
C14_Original ==
    last.op = "deleteJournalEntry" =>
        /\ ~last.threw
        /\ LET Other(e) == e.id # last.id
           IN  Entries = SelectSeq(Before, Other)

\* C15: saveJournalEntry never throws to its caller, whether createThumbnail
\* resolved or rejected, whatever the stored text is (absent, unparsable, or
\* parsable but not a journal), and however the storage writes end.
C15_SaveNeverThrows ==
    SaveDone => ~last.threw

\* the stored text is null and the image did not decode: unshift on the
\* entries of null raises, nothing is written, and the call returns
C15_Witness ==
    /\ SaveDone
    /\ last.before = JsonNull
    /\ last.step = "img.onerror"
    /\ last.attempts = 0
    /\ ~last.threw
    /\ storage = JsonNull

\* the old entries that the quota fallback dropped from the stored list, beyond
\* the one that the capacity of MAX_ENTRIES evicts
DroppedByLadder ==
    IF last.result THEN min(Len(Before) + 1, 50) - Len(Entries) ELSE 0

\* C16 as claimed: saveJournalEntry makes at most three write attempts (the
\* full list, the list less its oldest entry, the list with the new entry's
\* thumbnail cleared) and drops at most one old entry.
C16_Original ==
    SaveDone =>
        /\ last.attempts <= 3
        /\ DroppedByLadder <= 1

\* C17: if createThumbnail rejects at any step, saveJournalEntry goes on with an
\* empty thumbnail; when the storage write succeeds the new entry is stored at
\* the head of the old entries, with outcome PENDING and an empty thumbnail.
C17_ThumbnailFailureStillSaves ==
    (SaveDone /\ last.step # "resolved") =>
        /\ last.thumbnail = ""
        /\ last.write = "ok" => (last.result /\ last.attempts = 1)
        /\ last.result =>
            /\ Len(Entries) >= 1
            /\ Entries[1].id = last.id
            /\ Entries[1].outcome = "PENDING"
            /\ Entries[1].imageThumbnail = ""
            /\ Tail(Entries) = SubSeq(Before, 1, Len(Entries) - 1)

\* no 2d context for the canvas, two entries stored, and the write succeeds
C17_Witness ==
    /\ SaveDone
    /\ last.step = "no context"
    /\ last.write = "ok"
    /\ Len(Before) = 2
    /\ Len(Entries) = 3
    /\ Entries[1].imageThumbnail = ""
    /\ Entries[1].outcome = "PENDING"

\* C18 as claimed: getJournal returns an empty list of entries whenever the
\* stored text is absent, is not JSON, or is JSON that is not a journal (null, a
\* number, an object without entries), and getJournalStats on such content
\* returns the statistics that are all zero and does not throw.
C18_Original ==
    /\ storage.kind # "journal" =>
        getJournal(storage) = [thrown |-> FALSE, entries |-> <<>>]
    /\ (last.op = "getJournalStats" /\ last.before.kind # "journal") =>
        /\ ~last.threw
        /\ last.stats = NoStats

StatsDone == last.op = "getJournalStats" /\ ~last.threw
\* the positions of the entries whose outcome is WIN or LOSS
Decided == {i \in 1..Len(Entries) : Entries[i].outcome \in {"WIN", "LOSS"}}
RelevantTime(i) ==
    IF Entries[i].outcomeUpdatedAt.def
    THEN Entries[i].outcomeUpdatedAt.v
    ELSE Entries[i].timestamp
\* entry i comes before entry j when ordered by descending relevant time
ComesBefore(i, j) ==
    \/ RelevantTime(i) > RelevantTime(j)
    \/ RelevantTime(i) = RelevantTime(j) /\ i < j
MostRecent == CHOOSE i \in Decided : \A j \in Decided \ {i} : ComesBefore(i, j)
\* the entries that come before every entry of the other outcome
StreakEntries ==
    {i \in Decided :
        \A j \in Decided :
            Entries[j].outcome # Entries[MostRecent].outcome => ComesBefore(i, j)}

\* C19: with the WIN and LOSS entries ordered by descending (outcomeUpdatedAt if
\* present, else timestamp), streakType is the outcome of the first and
\* currentStreak the length of the longest prefix with that outcome; without
\* such entries they are NONE and 0; [WIN, WIN, LOSS, WIN] gives 2 and WIN.
C19_Streak ==
    StatsDone =>
        /\ IF Decided = {}
           THEN last.stats.currentStreak = 0 /\ last.stats.streakType = "NONE"
           ELSE /\ last.stats.streakType = Entries[MostRecent].outcome
                /\ last.stats.currentStreak = Cardinality(StreakEntries)
        /\ ( /\ [i \in 1..Len(Entries) |-> Entries[i].outcome]
                    = <<"WIN", "WIN", "LOSS", "WIN">>
             /\ \A i \in 1..Len(Entries) : ~Entries[i].outcomeUpdatedAt.def )
            => (last.stats.currentStreak = 2 /\ last.stats.streakType = "WIN")

\* a pending entry first, then a loss, a break-even and a win, the win being the
\* one labelled last: the streak is one WIN
C19_Witness ==
    /\ StatsDone
    /\ [i \in 1..Len(Entries) |-> Entries[i].outcome]
            = <<"PENDING", "LOSS", "BREAKEVEN", "WIN">>
    /\ Entries[4].outcomeUpdatedAt.def
    /\ ~Entries[2].outcomeUpdatedAt.def
    /\ last.stats.currentStreak = 1
    /\ last.stats.streakType = "WIN"

Modes == {"scalping", "swing"}
\* the entries of the given modes that are wins, and that are resolved
WinsOf(modes) ==
    Cardinality({i \in 1..Len(Entries) :
                    Entries[i].mode \in modes /\ Entries[i].outcome = "WIN"})
ResolvedOf(modes) ==
    Cardinality({i \in 1..Len(Entries) :
                    /\ Entries[i].mode \in modes
                    /\ Entries[i].outcome \in {"WIN", "LOSS", "BREAKEVEN"}})
\* q is part / whole * 100, and 0 when whole is 0
IsPercentOf(q, part, whole) ==
    /\ q.den > 0
    /\ IF whole = 0 THEN q.num = 0 ELSE q.num * whole = part * 100 * q.den

\* C20: winRate is winCount / (winCount + lossCount + breakEvenCount) * 100 and 0
\* when there is no such entry; winRateScalping and winRateSwing are the same
\* formula over the entries of that mode.
C20_WinRates ==
    StatsDone =>
        /\ last.stats.winCount = WinsOf(Modes)
        /\ last.stats.winCount + last.stats.lossCount + last.stats.breakEvenCount
                = ResolvedOf(Modes)
        /\ IsPercentOf(last.stats.winRate, WinsOf(Modes), ResolvedOf(Modes))
        /\ IsPercentOf(last.stats.winRateScalping, WinsOf({"scalping"}),
                       ResolvedOf({"scalping"}))
        /\ IsPercentOf(last.stats.winRateSwing, WinsOf({"swing"}), ResolvedOf({"swing"}))

\* a scalping win, a scalping break-even and a swing loss: one win in three
\* overall, one in two for scalping, none for swing
C20_Witness ==
    /\ StatsDone
    /\ Len(Entries) = 3
    /\ last.stats.winRate = Quotient(100, 3)
    /\ last.stats.winRateScalping = Quotient(100, 2)
    /\ last.stats.winRateSwing = Quotient(0, 1)
    /\ last.stats.breakEvenCount = 1

\* the positions of the entries whose pnl is defined
WithPnl == {i \in 1..Len(Entries) : Entries[i].pnl.def}
RECURSIVE PnlOver(_)
PnlOver(positions) ==
    IF positions = {} THEN 0
    ELSE LET i == CHOOSE p \in positions : TRUE
         IN  Entries[i].pnl.v + PnlOver(positions \ {i})

\* C21: totalPnl is the sum of pnl over exactly the entries whose pnl is
\* defined and avgPnl is totalPnl divided by their number; both are 0 when no
\* entry has a defined pnl.
C21_PnlTotals ==
    StatsDone =>
        /\ last.stats.totalPnl = PnlOver(WithPnl)
        /\ last.stats.avgPnl.den > 0
        /\ IF WithPnl = {}
           THEN last.stats.totalPnl = 0 /\ last.stats.avgPnl.num = 0
           ELSE last.stats.avgPnl.num * Cardinality(WithPnl)
                    = last.stats.totalPnl * last.stats.avgPnl.den

\* a gain of 25, a loss of 10 and an entry without pnl: 15 in all, 15 / 2 on
\* average
C21_Witness ==
    /\ StatsDone
    /\ Len(Entries) = 3
    /\ Cardinality(WithPnl) = 2
    /\ last.stats.totalPnl = 15
    /\ last.stats.avgPnl = Quotient(15, 2)

\* the store holding only the entries of one mode
OnlyMode(mode) ==
    LET OfMode(e) == e.mode = mode
    IN  [storage EXCEPT !.entries = SelectSeq(@, OfMode)]
DecidedOf(modes) ==
    Cardinality({i \in 1..Len(Entries) :
                    /\ Entries[i].mode \in modes
                    /\ Entries[i].outcome \in {"WIN", "LOSS"}})

\* C28 as stated: the per-mode win rates leave break-even entries out of
\* their denominator, which is the wins and losses of the mode
C28_Original ==
    StatsDone =>
        /\ IsPercentOf(last.stats.winRateScalping, WinsOf({"scalping"}),
                       DecidedOf({"scalping"}))
        /\ IsPercentOf(last.stats.winRateSwing, WinsOf({"swing"}), DecidedOf({"swing"}))

\* C28: the per-mode win rates count break-even entries in their denominator
\* as the global win rate does: for every store, winRateScalping and
\* winRateSwing are the winRate getJournalStats gives for the store holding
\* only the entries of that mode
C28_PerModeAsGlobal ==
    StatsDone =>
        /\ last.stats.winRateScalping = getJournalStats(OnlyMode("scalping")).stats.winRate
        /\ last.stats.winRateSwing = getJournalStats(OnlyMode("swing")).stats.winRate

\* two scalping entries, a win and a break-even: one win in two, not one in one
C28_Witness ==
    /\ StatsDone
    /\ Len(Entries) = 2
    /\ \A i \in 1..2 : Entries[i].mode = "scalping"
    /\ \E i \in 1..2 : Entries[i].outcome = "WIN"
    /\ \E i \in 1..2 : Entries[i].outcome = "BREAKEVEN"
    /\ last.stats.winRateScalping = Quotient(100, 2)
    /\ last.stats.winRate = Quotient(100, 2)

\* C29: an updateJournalOutcome, updateJournalPair or deleteJournalEntry that
\* ran while saveJournalEntry was suspended on createThumbnail is kept by the
\* save: with the write of the operation and the write of the save succeeding,
\* the store has the new entry at its head, followed by the entries the
\* operation left (as many as MAX_ENTRIES allows); the deleted entry is not
\* back, and the updated entry carries the outcome or pair it was given
InterleavedSave ==
    /\ last.op = "saveJournalEntry"
    /\ last.prev.op \in {"updateJournalOutcome", "updateJournalPair", "deleteJournalEntry"}
    /\ last.prev.result
    /\ last.prev.write = "ok"
    /\ last.write = "ok"
OutcomeCount(outcomes) ==
    Cardinality({i \in 1..Len(Entries) : Entries[i].outcome \in outcomes})
C30_OutcomesPartition ==
    /\ \A i \in 1..Len(Entries) : Entries[i].outcome \in TradeOutcomes \cup {NoOutcome}
    /\ (last.op = "saveJournalEntry" /\ last.result) =>
          /\ Entries[1].id = last.id
          /\ Entries[1].outcome = "PENDING"
    /\ (last.op = "getJournalStats" /\ ~last.threw) =>
          /\ last.stats.total = Len(Entries)
          /\ last.stats.winCount + last.stats.lossCount + last.stats.breakEvenCount
                + last.stats.pendingCount = last.stats.total
          /\ last.stats.winCount = OutcomeCount({"WIN"})
          /\ last.stats.lossCount = OutcomeCount({"LOSS"})
          /\ last.stats.breakEvenCount = OutcomeCount({"BREAKEVEN"})
          /\ last.stats.pendingCount = OutcomeCount({"PENDING", NoOutcome})

\* the statistics of two entries stored without an outcome: both pending
C30_Witness ==
    /\ last.op = "getJournalStats"
    /\ ~last.threw
    /\ Len(Entries) = 2
    /\ \A i \in 1..2 : Entries[i].outcome = NoOutcome
    /\ last.stats.total = 2
    /\ last.stats.pendingCount = 2

(***************************************************************************)
(* src/app/page.tsx: Home, its two upload slots and handleAnalyze          *)
(***************************************************************************)
\* useState<'scalping' | 'swing' | null>(null), useState<File | null>(null)
NoMode == ""
NoFile == ""
Files == {"chart-1.png", "chart-2.png", "chart-3.png"}

\* setCooldown(10)
COOLDOWN == 10

\* requests sent in one run
MaxRequests == 2

\* new FormData(): the fields a request carries
NoForm == [image |-> FALSE, image_htf |-> FALSE, image_ltf |-> FALSE, mode |-> NoMode]

\* what fetch settled with: settled is "" while nothing came back, "response"
\* or "rejected"; json says whether the body parses, error is the body's
\* error field ("" when it has none)
NoReply == [settled |-> "", status |-> 0, json |-> FALSE, error |-> "",
            decision |-> "", confidence_score |-> ""]
Response(status, json, error, decision, confidence_score) ==
    [settled |-> "response", status |-> status, json |-> json, error |-> error,
     decision |-> decision, confidence_score |-> confidence_score]
ErrorResponse(status, error) == Response(status, TRUE, error, "", "")

\* the last handler that ran, its argument, and Home's state when it was called
NoEvent == [name |-> "", slot |-> "", selectedMode |-> NoMode, selectedImageHTF |-> NoFile,
            selectedImageLTF |-> NoFile, isAnalyzing |-> FALSE, cooldown |-> 0, ticks |-> 0]
Event(p, name, slot) ==
    [name |-> name, slot |-> slot, selectedMode |-> p.selectedMode,
     selectedImageHTF |-> p.selectedImageHTF, selectedImageLTF |-> p.selectedImageLTF,
     isAnalyzing |-> p.isAnalyzing, cooldown |-> p.cooldown, ticks |-> p.ticks]

\* Home's state after the first render. pc is the position of the handleAnalyze
\* call in flight; sent, reply, saves, ticks and event record what happened:
\* the requests sent, the last reply, the saveJournalEntry calls of the last
\* request, the countdown ticks since the last request ended
NewPage ==
    [selectedMode |-> NoMode, selectedImageHTF |-> NoFile, selectedImageLTF |-> NoFile,
     isAnalyzing |-> FALSE, cooldown |-> 0, analysisResult |-> "",
     pc |-> "idle", formData |-> NoForm,
     sent |-> 0, reply |-> NoReply, saves |-> 0, ticks |-> COOLDOWN, event |-> NoEvent]

\* const canAnalyze = (selectedImageHTF !== null || selectedImageLTF !== null)
canAnalyze(p) == p.selectedImageHTF # NoFile \/ p.selectedImageLTF # NoFile

\* handleModeSelect
handleModeSelect(p, mode) == [p EXCEPT !.selectedMode = mode, !.analysisResult = ""]

\* handleImagesSelected
handleImagesSelected(p, fileHTF, fileLTF) ==
    LET a == IF fileHTF # NoFile THEN [p EXCEPT !.selectedImageHTF = fileHTF] ELSE p
        b == IF fileLTF # NoFile THEN [a EXCEPT !.selectedImageLTF = fileLTF] ELSE a
        c == IF fileHTF = NoFile /\ fileLTF = NoFile
             THEN [b EXCEPT !.selectedImageHTF = NoFile, !.selectedImageLTF = NoFile]
             ELSE b
    IN  [c EXCEPT !.analysisResult = ""]

\* if (!selectedMode || !canAnalyze || isAnalyzing || cooldown > 0) return;
mayAnalyze_ignoringCooldown(p) == p.selectedMode # NoMode /\ canAnalyze(p) /\ ~p.isAnalyzing
mayAnalyze(p) ==
    ~(p.selectedMode = NoMode \/ ~canAnalyze(p) \/ p.isAnalyzing \/ p.cooldown > 0)

\* the FormData handleAnalyze builds
formDataOf(p) ==
    [image |-> FALSE, image_htf |-> p.selectedImageHTF # NoFile,
     image_ltf |-> p.selectedImageLTF # NoFile, mode |-> p.selectedMode]

\* POST of /api/analyze: what the endpoint answers to a request, outcome being
\* what happens on the server after the required-field check
ServerOutcomes == {"demo", "no api key", "ai failed", "ai reply invalid", "analysis", "exception"}
MISSING_FIELDS_ERROR == "Missing required image or mode."
POST(formData, outcome) ==
    LET imageFile1 == formData.image \/ formData.image_htf
    IN  IF ~imageFile1 \/ formData.mode = NoMode
        THEN ErrorResponse(400, MISSING_FIELDS_ERROR)
        ELSE CASE outcome = "demo" -> Response(200, TRUE, "", "BUY", "High")
               [] outcome = "no api key" -> ErrorResponse(500, "API key not configured.")
               [] outcome = "ai failed" -> ErrorResponse(503, REQUEST_FAILED_MESSAGE[1])
               [] outcome = "ai reply invalid" -> ErrorResponse(500, "Failed to parse AI response.")
               [] outcome = "analysis" -> Response(200, TRUE, "", "WAIT", "Medium")
               [] OTHER -> ErrorResponse(500, "Internal server error.")

\* what can come back to the page: an answer of POST, a rejected fetch, or an
\* answer produced on the way (a gateway's page, a body that is no JSON, a 200
\* whose body carries an error field)
FetchRejected == [NoReply EXCEPT !.settled = "rejected"]
Replies(formData) ==
    {POST(formData, o) : o \in ServerOutcomes}
        \cup {FetchRejected, Response(502, FALSE, "", "", ""), Response(200, FALSE, "", "", ""),
              ErrorResponse(200, "upstream error")}

\* the try block of handleAnalyze after fetch settled: does it reach
\* setAnalysisResult(data)? A rejected fetch throws, a status outside 200..299
\* throws, data.error of an unparsed body throws a TypeError, an error field throws
analysisSucceeds(r) ==
    /\ r.settled = "response"
    /\ r.status \in 200..299
    /\ r.json
    /\ r.error = ""

\* the arguments of saveJournalEntry(selectedMode, mainImage, data, undefined, isConfluence)
journalCallOf_htfFirst(p, data) ==
    [mode |-> p.selectedMode,
     imageFileName |-> IF p.selectedImageHTF # NoFile THEN p.selectedImageHTF
                       ELSE p.selectedImageLTF,
     decision |-> data.decision, confidence_score |-> data.confidence_score,
     pair |-> UndefStr,
     isConfluence |-> Some(p.selectedImageHTF # NoFile /\ p.selectedImageLTF # NoFile)]
journalCallOf(p, data) ==
    [mode |-> p.selectedMode,
     imageFileName |-> IF p.selectedImageLTF # NoFile THEN p.selectedImageLTF
                       ELSE p.selectedImageHTF,
     decision |-> data.decision, confidence_score |-> data.confidence_score,
     pair |-> UndefStr,
     isConfluence |-> Some(p.selectedImageHTF # NoFile /\ p.selectedImageLTF # NoFile)]

\* finally { setIsAnalyzing(false); setCooldown(10); }
finishAnalyze(p) ==
    [p EXCEPT !.isAnalyzing = FALSE, !.cooldown = COOLDOWN, !.pc = "idle", !.ticks = 0,
              !.event = Event(p, "finished", "")]

\* ---- actions ----
\* a click on a mode card (ModeSelector is disabled while isAnalyzing)
HandleModeSelect ==
    /\ ~page.isAnalyzing
    /\ \E mode \in Modes :
         page' = [handleModeSelect(page, mode) EXCEPT !.event = Event(page, "handleModeSelect", mode)]
    /\ UNCHANGED journalVars

\* a file chosen or dropped in an empty slot: onFileSelect of the HTF zone is
\* onImagesSelected(file, selectedImageLTF), of the LTF zone
\* onImagesSelected(selectedImageHTF, file). UploadZone is rendered once a mode
\* is selected and disabled while isAnalyzing
SelectFile ==
    /\ page.selectedMode # NoMode
    /\ ~page.isAnalyzing
    /\ \E file \in Files :
         \/ /\ page.selectedImageHTF = NoFile
            /\ page' = [handleImagesSelected(page, file, page.selectedImageLTF)
                            EXCEPT !.event = Event(page, "onFileSelect", "htf")]
         \/ /\ page.selectedImageLTF = NoFile
            /\ page' = [handleImagesSelected(page, page.selectedImageHTF, file)
                            EXCEPT !.event = Event(page, "onFileSelect", "ltf")]
    /\ UNCHANGED journalVars

\* the X button of a filled slot: onClear of the HTF zone is
\* onImagesSelected(null, selectedImageLTF), of the LTF zone
\* onImagesSelected(selectedImageHTF, null)
ClearSlot ==
    /\ page.selectedMode # NoMode
    /\ ~page.isAnalyzing
    /\ \/ /\ page.selectedImageHTF # NoFile
          /\ page' = [handleImagesSelected(page, NoFile, page.selectedImageLTF)
                          EXCEPT !.event = Event(page, "onClear", "htf")]
       \/ /\ page.selectedImageLTF # NoFile
          /\ page' = [handleImagesSelected(page, page.selectedImageHTF, NoFile)
                          EXCEPT !.event = Event(page, "onClear", "ltf")]
    /\ UNCHANGED journalVars

\* handleAnalyze up to its fetch: the guard returns, or the request is sent
HandleAnalyze ==
    /\ IF mayAnalyze(page)
       THEN /\ page.sent < MaxRequests
            /\ page' = [page EXCEPT !.isAnalyzing = TRUE, !.analysisResult = "",
                                    !.pc = "fetching", !.formData = formDataOf(page),
                                    !.sent = @ + 1, !.reply = NoReply, !.saves = 0,
                                    !.event = Event(page, "sent", "")]
       ELSE page' = [page EXCEPT !.event = Event(page, "rejected", "")]
    /\ UNCHANGED journalVars

\* fetch settles and handleAnalyze runs on: to the await of saveJournalEntry
\* when the analysis succeeded, to the end of its finally block otherwise
Fetch ==
    /\ page.pc = "fetching"
    /\ \E r \in Replies(page.formData) :
         LET mainImage == IF page.selectedImageLTF # NoFile THEN page.selectedImageLTF
                          ELSE page.selectedImageHTF
         IN  IF analysisSucceeds(r) /\ mainImage # NoFile /\ page.selectedMode # NoMode
             THEN /\ ops < MaxOps
                  /\ pending = NoCall
                  /\ pending' = journalCallOf(page, r)
                  /\ ops' = ops + 1
                  /\ page' = [page EXCEPT !.analysisResult = r.decision, !.reply = r,
                                          !.saves = @ + 1, !.pc = "saving"]
             ELSE /\ page' = finishAnalyze(
                                [page EXCEPT !.reply = r,
                                             !.analysisResult =
                                                 IF analysisSucceeds(r) THEN r.decision ELSE @])
                  /\ UNCHANGED <<pending, ops>>
    /\ UNCHANGED <<storage, now, nextId, last>>

\* saveJournalEntry settled: handleAnalyze runs its finally block
AnalyzeSaved ==
    /\ page.pc = "saving"
    /\ pending = NoCall
    /\ page' = finishAnalyze(page)
    /\ UNCHANGED journalVars

\* the cooldown effect: setTimeout(() => setCooldown((prev) => prev - 1), 1000)
CooldownTick ==
    /\ page.cooldown > 0
    /\ page' = [page EXCEPT !.cooldown = @ - 1, !.ticks = @ + 1,
                            !.event = Event(page, "tick", "")]
    /\ UNCHANGED journalVars

(***************************************************************************)
(* TradeOutcomeSelector inside TradingJournal: the blur handlers of the    *)
(* notes and pnl inputs                                                    *)
(***************************************************************************)
\* what the user left in the two inputs (useState notes, pnl)
NotesTexts == {"", "tight stop"}
PnlTexts == {"", "5", "-3"}

\* parseFloat of the text of the number input
parseFloat(text) ==
    CASE text = "5" -> 5
      [] text = "-3" -> 0 - 3
      [] OTHER -> 0

\* currentOutcome={entry.outcome || 'PENDING'}
currentOutcomeOf(entry) == IF entry.outcome = NoOutcome THEN "PENDING" ELSE entry.outcome

\* onOutcomeChange(currentOutcome, notes || undefined, pnlValue), which is
\* handleOutcomeChange(entry.id, ...) and so updateJournalOutcome
blurUpdate(st, entry, notes, pnl, t, w1, w2) ==
    updateJournalOutcome(st, entry.id, currentOutcomeOf(entry),
                         IF notes # "" THEN Some(notes) ELSE UndefStr,
                         IF pnl # "" THEN Some(parseFloat(pnl)) ELSE UndefNum,
                         t, w1, w2)

\* the entries whose selector is used: the newest and the oldest
ShownEntries ==
    LET entries == getJournal(storage).entries
    IN  IF entries = <<>> THEN {} ELSE {entries[1], entries[Len(entries)]}

\* handleNotesBlur
HandleNotesBlur ==
    /\ ops < MaxOps
    /\ \E entry \in ShownEntries, notes \in NotesTexts, pnl \in PnlTexts, w \in WriteBehaviours :
        LET r == blurUpdate(storage, entry, notes, pnl, now, w[1], w[2])
        IN  /\ storage' = r.storage
            /\ last' = [NoOp EXCEPT !.op = "handleNotesBlur", !.id = entry.id,
                                    !.outcome = currentOutcomeOf(entry),
                                    !.notes = IF notes # "" THEN Some(notes) ELSE UndefStr,
                                    !.pnl = IF pnl # "" THEN Some(parseFloat(pnl)) ELSE UndefNum,
                                    !.result = r.result, !.attempts = r.attempts,
                                    !.write = IF r.attempts = 0 THEN "" ELSE w[1],
                                    !.before = storage, !.t = now]
    /\ ops' = ops + 1
    /\ UNCHANGED <<now, nextId, pending>>

\* handlePnlBlur
HandlePnlBlur ==
    /\ ops < MaxOps
    /\ \E entry \in ShownEntries, notes \in NotesTexts, pnl \in PnlTexts, w \in WriteBehaviours :
        LET r == blurUpdate(storage, entry, notes, pnl, now, w[1], w[2])
        IN  /\ storage' = r.storage
            /\ last' = [NoOp EXCEPT !.op = "handlePnlBlur", !.id = entry.id,
                                    !.outcome = currentOutcomeOf(entry),
                                    !.notes = IF notes # "" THEN Some(notes) ELSE UndefStr,
                                    !.pnl = IF pnl # "" THEN Some(parseFloat(pnl)) ELSE UndefNum,
                                    !.result = r.result, !.attempts = r.attempts,
                                    !.write = IF r.attempts = 0 THEN "" ELSE w[1],
                                    !.before = storage, !.t = now]
    /\ ops' = ops + 1
    /\ UNCHANGED <<now, nextId, pending>>

(***************************************************************************)
(* Claims about the page                                                   *)
(***************************************************************************)
\* C22: every request that was sent ends with the cooldown at 10 and no
\* analysis in progress; a countdown tick takes 1 off the cooldown;
\* handleAnalyze sends a request only while no analysis is in progress and the
\* cooldown is 0, so that a request that is not the first starts at least 10
\* ticks after the previous one ended; a call the guard rejects leaves the
\* cooldown as it was
C22_Cooldown ==
    /\ page.event.name = "finished" => page.cooldown = 10 /\ ~page.isAnalyzing
    /\ page.event.name = "tick" => page.cooldown = page.event.cooldown - 1
    /\ page.event.name = "sent" =>
          /\ ~page.event.isAnalyzing
          /\ page.event.cooldown = 0
          /\ page.sent > 1 => page.event.ticks >= 10
    /\ page.event.name = "rejected" =>
          /\ page.cooldown = page.event.cooldown
          /\ page.isAnalyzing = page.event.isAnalyzing
    /\ page.isAnalyzing => page.cooldown = 0

\* a second request was sent, ten ticks after the first one failed
C22_Witness ==
    /\ page.sent = 2
    /\ page.event.name = "sent"
    /\ page.event.ticks = 10
    /\ page.pc = "fetching"

\* C24 as stated: no request the page sends is answered with 400 'Missing
\* required image or mode.'
C24_Original ==
    page.reply.settled = "response" =>
        ~(page.reply.status = 400 /\ page.reply.error = "Missing required image or mode.")

\* C25 as stated: after the X button of a slot, that slot is empty and the
\* other slot holds what it held
C25_Original ==
    page.event.name = "onClear" =>
        /\ page.event.slot = "htf" =>
              /\ page.selectedImageHTF = NoFile
              /\ page.selectedImageLTF = page.event.selectedImageLTF
        /\ page.event.slot = "ltf" =>
              /\ page.selectedImageLTF = NoFile
              /\ page.selectedImageHTF = page.event.selectedImageHTF

\* C26: of a request that was answered, handleAnalyze called saveJournalEntry
\* once if the answer was OK, parsed and carried no error field, and not at
\* all otherwise; not before the answer either. The call, and every entry it
\* stored, has isConfluence true exactly when both slots were filled, and the
\* name of the lower-timeframe file if there was one, else of the
\* higher-timeframe file
BothSlots == page.selectedImageHTF # NoFile /\ page.selectedImageLTF # NoFile
MainImageName ==
    IF page.selectedImageLTF # NoFile THEN page.selectedImageLTF ELSE page.selectedImageHTF
AnsweredOk ==
    /\ page.reply.settled = "response"
    /\ page.reply.status >= 200 /\ page.reply.status <= 299
    /\ page.reply.json
    /\ page.reply.error = ""
C26_SavedOnSuccessOnly ==
    /\ page.saves = (IF AnsweredOk THEN 1 ELSE 0)
    /\ pending # NoCall =>
          /\ pending.isConfluence = Some(BothSlots)
          /\ pending.imageFileName = MainImageName
          /\ pending.mode = page.selectedMode
          /\ pending.decision = page.reply.decision
    /\ \A i \in 1..Len(Entries) :
          /\ Entries[i].isConfluence = BothSlots
          /\ Entries[i].imageFileName = MainImageName
    /\ Len(Entries) <= ops

\* a two-chart analysis was answered and stored
C26_Witness ==
    /\ page.saves = 1
    /\ AnsweredOk
    /\ BothSlots
    /\ last.op = "saveJournalEntry"
    /\ last.result
    /\ Len(Entries) = 1
    /\ Entries[1].isConfluence
    /\ Entries[1].imageFileName = "chart-2.png"
    /\ page.event.name = "finished"

\* C27 as stated: after a blur handler ran, the entry it was called for has the
\* outcome it had, and getJournalStats gives the currentStreak and streakType
\* it gave before
BlurDone == last.op \in {"handleNotesBlur", "handlePnlBlur"}
InitRetry ==
    /\ pc = "loop"
    /\ attempt = 0
    /\ lastError = JsNull
    /\ calls = <<>>
    /\ sleeps = <<>>
    /\ settled = NoValue
    /\ arg = JsNull
    /\ ret = NotCalled
    /\ storage = Absent
    /\ now = StartTime
    /\ nextId = StartTime
    /\ pending = NoCall
    /\ last = NoOp
    /\ ops = 0
    /\ page = NewPage
NextRetry ==
    \/ LoopHead /\ UNCHANGED pureVars /\ UNCHANGED journalVars /\ UNCHANGED pageVars
    \/ OperationReturns /\ UNCHANGED pureVars /\ UNCHANGED journalVars /\ UNCHANGED pageVars
    \/ OperationThrows /\ UNCHANGED pureVars /\ UNCHANGED journalVars /\ UNCHANGED pageVars
SpecRetry == InitRetry /\ [][NextRetry]_vars

\* isRetryableError on every thrown value
InitClassify ==
    /\ pc = "loop"
    /\ attempt = 0
    /\ lastError = JsNull
    /\ calls = <<>>
    /\ sleeps = <<>>
    /\ settled = NoValue
    /\ arg \in ThrownValues
    /\ ret = NotCalled
    /\ storage = Absent
    /\ now = StartTime
    /\ nextId = StartTime
    /\ pending = NoCall
    /\ last = NoOp
    /\ ops = 0
    /\ page = NewPage
NextClassify == CallIsRetryableError /\ UNCHANGED retryVars /\ UNCHANGED journalVars /\ UNCHANGED pageVars
SpecClassify == InitClassify /\ [][NextClassify]_vars

\* getErrorMessage on every thrown value
InitMessage ==
    /\ pc = "loop"
    /\ attempt = 0
    /\ lastError = JsNull
    /\ calls = <<>>
    /\ sleeps = <<>>
    /\ settled = NoValue
    /\ arg \in ThrownValues
    /\ ret = NotCalled
    /\ storage = Absent
    /\ now = StartTime
    /\ nextId = StartTime
    /\ pending = NoCall
    /\ last = NoOp
    /\ ops = 0
    /\ page = NewPage
NextMessage == CallGetErrorMessage /\ UNCHANGED retryVars /\ UNCHANGED journalVars /\ UNCHANGED pageVars
SpecMessage == InitMessage /\ [][NextMessage]_vars

\* the journal operations
InitJournal ==
    /\ pc = "loop"
    /\ attempt = 0
    /\ lastError = JsNull
    /\ calls = <<>>
    /\ sleeps = <<>>
    /\ settled = NoValue
    /\ arg = JsNull
    /\ ret = NotCalled
    /\ storage \in InitialStores
    /\ now = StartTime
    /\ nextId = StartTime
    /\ pending = NoCall
    /\ last = NoOp
    /\ ops = 0
    /\ page = NewPage
NextJournal ==
    \/ Tick /\ UNCHANGED retryVars /\ UNCHANGED pureVars /\ UNCHANGED pageVars
    \/ SaveJournalEntryCall /\ UNCHANGED retryVars /\ UNCHANGED pureVars /\ UNCHANGED pageVars
    \/ SaveJournalEntryResume /\ UNCHANGED retryVars /\ UNCHANGED pureVars /\ UNCHANGED pageVars
    \/ UpdateJournalOutcome /\ UNCHANGED retryVars /\ UNCHANGED pureVars /\ UNCHANGED pageVars
    \/ UpdateJournalPair /\ UNCHANGED retryVars /\ UNCHANGED pureVars /\ UNCHANGED pageVars
    \/ DeleteJournalEntry /\ UNCHANGED retryVars /\ UNCHANGED pureVars /\ UNCHANGED pageVars
    \/ ClearJournal /\ UNCHANGED retryVars /\ UNCHANGED pureVars /\ UNCHANGED pageVars
    \/ GetJournalStats /\ UNCHANGED retryVars /\ UNCHANGED pureVars /\ UNCHANGED pageVars
SpecJournal == InitJournal /\ [][NextJournal]_vars

\* getJournalStats on every small store
InitStats ==
    /\ pc = "loop"
    /\ attempt = 0
    /\ lastError = JsNull
    /\ calls = <<>>
    /\ sleeps = <<>>
    /\ settled = NoValue
    /\ arg = JsNull
    /\ ret = NotCalled
    /\ \E k \in 0..MaxStatsEntries :
        \E f \in [1..k -> StatsProfiles] : storage = StatsStore(f, k)
    /\ now = StartTime
    /\ nextId = StartTime
    /\ pending = NoCall
    /\ last = NoOp
    /\ ops = 0
    /\ page = NewPage
NextStats == GetJournalStats /\ UNCHANGED retryVars /\ UNCHANGED pureVars /\ UNCHANGED pageVars
SpecStats == InitStats /\ [][NextStats]_vars

\* everything together
\* the upload slots and the mode cards
InitUpload ==
    /\ pc = "loop"
    /\ attempt = 0
    /\ lastError = JsNull
    /\ calls = <<>>
    /\ sleeps = <<>>
    /\ settled = NoValue
    /\ arg = JsObject(NoStatus, S_RateLimit)
    /\ ret = NotCalled
    /\ storage = Fill(0)
    /\ now = StartTime
    /\ nextId = StartTime
    /\ pending = NoCall
    /\ last = NoOp
    /\ ops = 0
    /\ page = NewPage
NextUpload ==
    \/ HandleModeSelect /\ UNCHANGED retryVars /\ UNCHANGED pureVars
    \/ SelectFile /\ UNCHANGED retryVars /\ UNCHANGED pureVars
    \/ ClearSlot /\ UNCHANGED retryVars /\ UNCHANGED pureVars
SpecUpload == InitUpload /\ [][NextUpload]_vars

\* analysis requests from a page whose mode and slots the user has set
InitAnalyze ==
    /\ pc = "loop"
    /\ attempt = 0
    /\ lastError = JsNull
    /\ calls = <<>>
    /\ sleeps = <<>>
    /\ settled = NoValue
    /\ arg = JsObject(NoStatus, S_RateLimit)
    /\ ret = NotCalled
    /\ storage = Fill(0)
    /\ now = StartTime
    /\ nextId = StartTime
    /\ pending = NoCall
    /\ last = NoOp
    /\ ops = 0
    /\ \E mode \in Modes \cup {NoMode} :
       \E fileHTF \in {NoFile, "chart-1.png"} :
       \E fileLTF \in {NoFile, "chart-2.png"} :
          /\ mode = NoMode => fileHTF = NoFile /\ fileLTF = NoFile
          /\ page = [NewPage EXCEPT !.selectedMode = mode, !.selectedImageHTF = fileHTF,
                                    !.selectedImageLTF = fileLTF]
NextAnalyze ==
    \/ HandleAnalyze /\ UNCHANGED retryVars /\ UNCHANGED pureVars
    \/ Fetch /\ UNCHANGED retryVars /\ UNCHANGED pureVars
    \/ SaveJournalEntryResume /\ UNCHANGED retryVars /\ UNCHANGED pureVars /\ UNCHANGED pageVars
    \/ AnalyzeSaved /\ UNCHANGED retryVars /\ UNCHANGED pureVars
    \/ CooldownTick /\ UNCHANGED retryVars /\ UNCHANGED pureVars
SpecAnalyze == InitAnalyze /\ [][NextAnalyze]_vars

\* notes and pnl edited in the journal panel
InitSelector ==
    /\ pc = "loop"
    /\ attempt = 0
    /\ lastError = JsNull
    /\ calls = <<>>
    /\ sleeps = <<>>
    /\ settled = NoValue
    /\ arg = JsObject(NoStatus, S_RateLimit)
    /\ ret = NotCalled
    /\ storage \in InitialStores
    /\ now = StartTime
    /\ nextId = StartTime
    /\ pending = NoCall
    /\ last = NoOp
    /\ ops = 0
    /\ page = NewPage
NextSelector ==
    \/ HandleNotesBlur /\ UNCHANGED retryVars /\ UNCHANGED pureVars /\ UNCHANGED pageVars
    \/ HandlePnlBlur /\ UNCHANGED retryVars /\ UNCHANGED pureVars /\ UNCHANGED pageVars
SpecSelector == InitSelector /\ [][NextSelector]_vars

\* journal operations while one saveJournalEntry call is suspended on
\* createThumbnail; ops counts the operations started after that call
InitInterleave ==
    /\ pc = "loop"
    /\ attempt = 0
    /\ lastError = JsNull
    /\ calls = <<>>
    /\ sleeps = <<>>
    /\ settled = NoValue
    /\ arg = JsObject(NoStatus, S_RateLimit)
    /\ ret = NotCalled
    /\ storage \in {Labelled(Fill(2)), Labelled(Fill(MAX_ENTRIES))}
    /\ now = StartTime
    /\ nextId = StartTime
    /\ pending = SwingWait
    /\ last = NoOp
    /\ ops = 0
    /\ page = NewPage
NextInterleave ==
    \/ UpdateJournalOutcome /\ UNCHANGED retryVars /\ UNCHANGED pureVars /\ UNCHANGED pageVars
    \/ UpdateJournalPair /\ UNCHANGED retryVars /\ UNCHANGED pureVars /\ UNCHANGED pageVars
    \/ DeleteJournalEntry /\ UNCHANGED retryVars /\ UNCHANGED pureVars /\ UNCHANGED pageVars
    \/ SaveJournalEntryResume /\ UNCHANGED retryVars /\ UNCHANGED pureVars /\ UNCHANGED pageVars
SpecInterleave == InitInterleave /\ [][NextInterleave]_vars

\* everything together
Init ==
    /\ pc = "loop"
    /\ attempt = 0
    /\ lastError = JsNull
    /\ calls = <<>>
    /\ sleeps = <<>>
    /\ settled = NoValue
    /\ arg = JsObject(NoStatus, S_RateLimit)
    /\ ret = NotCalled
    /\ storage \in InitialStores
    /\ now = StartTime
    /\ nextId = StartTime
    /\ pending = NoCall
    /\ last = NoOp
    /\ ops = 0
    /\ page = NewPage
Next == NextRetry \/ NextClassify \/ NextMessage \/ NextJournal \/ NextUpload \/ NextAnalyze
            \/ NextSelector
Spec == Init /\ [][Next]_vars

====
